---------------------------- MODULE Spec2Model ----------------------------
(***************************************************************************)
(* AgentID: a session state machine that bridges the GrandID/BankID        *)
(* identity provider to a signed pseudonymous credential.                  *)
(*                                                                         *)
(* The model follows the request handlers of the service:                  *)
(*   POST /api/auth/start            (Start)                               *)
(*   GET  /api/auth/[sessionId]/poll (PollLoad, PollGrandid, Update...)    *)
(*   GET  /api/auth/status           (Status)                              *)
(*   GET  /api/jwks                  (Jwks)                                *)
(* over the session store (lib/store.ts), the provider client              *)
(* (lib/grandid.ts) and the credential issuer (lib/jwt.ts).  A handler is  *)
(* split into one action per await at which another request can run.       *)
(***************************************************************************)
EXTENDS Integers, Sequences, FiniteSets, TLC

VARIABLES
    env,        \* process.env, fixed for the life of the process
    now,        \* Date.now(), in seconds
    store,      \* the session store: sessionId -> [val: Session, exp: time]
    grandid,    \* the provider's transactions: grandidSessionId -> state
    poll,       \* the poll invocations in flight: poller -> locals
    last,       \* the response of start / status / jwks, if that was the last step
    released,   \* Complete responses the provider has returned to a poll
    issued,     \* number of credentials issueJwt has returned so far
    unreachable, \* sessions for which a poll has answered GRANDID_UNREACHABLE
    calledAt,   \* grandidSessionId -> time of the last GetSession call for it
    page,       \* the auth page: its screen and the state of its polling
    backends    \* the store of each backend under one sequence of store calls

vars == <<env, now, store, grandid, poll, last, released, issued, unreachable,
          calledAt, page, backends>>

----------------------------------------------------------------------------
(* Bounds of the model *)

MaxJwts == 2
MaxTicks == 2

(* The model follows one session, and two requests to poll it at a time.   *)
SessionIds == {1}
Pollers == {"p1", "p2"}

(* A request takes the first free slot: p2 is in use only while p1 is. *)
FreeSlot(p) == p = "p1" \/ poll["p1"].pc # "idle"

(* Time advances in steps of TickS seconds, up to MaxTicks steps. *)
TickS == 5 * 60

----------------------------------------------------------------------------
(* Program constants *)

PENDING_TTL_S == 10 * 60
COMPLETE_TTL_S == 60 * 60

ISSUER == "agentid"
EXPIRY_S == 300
KEY_ID == "agentid-key-1"

START_EXPIRES_S == 5 * 60
JWKS_MAX_AGE_S == 300

----------------------------------------------------------------------------
(* Values *)

Nil == [nil |-> TRUE]

Persons ==
    { [personalNumber |-> "199001010000", name |-> "Anna Andersson",
       givenName |-> "Anna", surname |-> "Andersson"],
      [personalNumber |-> "198505052222", name |-> "Bo Berg",
       givenName |-> "Bo", surname |-> "Berg"] }

PendingHints == {"userSign"}
FailedHints == {"userCancel", "expiredTransaction"}

(* The configurations of the process: everything set, and each way of     *)
(* leaving something out, with and without Redis.                          *)
Configured ==
    [GRANDID_KEYS |-> TRUE, JWT_PRIVATE_KEY |-> "valid",
     JWT_PUBLIC_KEY |-> "valid", JWT_HMAC_SECRET |-> "k1"]

Configs ==
    { Configured,
      [Configured EXCEPT !.GRANDID_KEYS = FALSE],
      [Configured EXCEPT !.JWT_PRIVATE_KEY = "unset", !.JWT_PUBLIC_KEY = "unset"],
      [Configured EXCEPT !.JWT_PRIVATE_KEY = "malformed"],
      [Configured EXCEPT !.JWT_HMAC_SECRET = "unset"] }

Envs ==
    { [REDIS_URL |-> r, GRANDID_KEYS |-> c.GRANDID_KEYS,
       JWT_PRIVATE_KEY |-> c.JWT_PRIVATE_KEY, JWT_PUBLIC_KEY |-> c.JWT_PUBLIC_KEY,
       JWT_HMAC_SECRET |-> c.JWT_HMAC_SECRET] : r \in BOOLEAN, c \in Configs }

USE_REDIS == env.REDIS_URL

GrandidId(n) == "g" \o ToString(n)

----------------------------------------------------------------------------
(* lib/store.ts *)

ttlFor(session) ==
    IF session.status = "complete" THEN COMPLETE_TTL_S ELSE PENDING_TTL_S

(* a replacement of the record by the update *)
Merge_Replace(existing, updates) == updates

(* { ...existing, ...updates } *)
Merge(existing, updates) ==
    [f \in DOMAIN existing \cup DOMAIN updates |->
        IF f \in DOMAIN updates THEN updates[f] ELSE existing[f]]

NewSession(grandidSessionId, t) ==
    [grandidSessionId |-> grandidSessionId, status |-> "pending", createdAt |-> t]

(* An entry of the store.  Redis entries carry the time at which the EX    *)
(* option makes the key disappear; entries of the in-memory Map do not.    *)
Entry(session, ttl, t) ==
    IF USE_REDIS THEN [val |-> session, exp |-> t + ttl] ELSE [val |-> session]

Expired(e, t) == "exp" \in DOMAIN e /\ e.exp <= t

(* getSession: <<session>> or <<>> (null) *)
getSession(sessionId) ==
    IF sessionId \in DOMAIN store THEN <<store[sessionId].val>> ELSE <<>>

Put(sessionId, entry) ==
    [k \in DOMAIN store \cup {sessionId} |->
        IF k = sessionId THEN entry ELSE store[k]]

(* the write of updateSession over the record it read *)
Updated(existing, updates) == Merge(existing, updates)

UpdatedEntry(existing, updates, t) ==
    Entry(Updated(existing, updates), ttlFor(Updated(existing, updates)), t)

----------------------------------------------------------------------------
(* lib/jwt.ts *)

(* HMAC-SHA256(secret, message) as hex, a keyed one-way function: one      *)
(* digest per (secret, message), all digests distinct.                      *)
HmacSha256Hex(secret, message) ==
    CASE secret = "k1" /\ message = "199001010000" -> "5f2a91c0"
      [] secret = "k1" /\ message = "198505052222" -> "c41d07be"
      [] secret = "k2" /\ message = "199001010000" -> "0b7e66a3"
      [] secret = "k2" /\ message = "198505052222" -> "e9035d12"
      [] OTHER -> "d0" \o secret \o message

(* getPrivateKey / readPem / importPKCS8: does loading the key succeed *)
PrivateKeyLoads == env.JWT_PRIVATE_KEY = "valid"

deriveSubject(personalNumber) ==
    HmacSha256Hex(env.JWT_HMAC_SECRET, personalNumber)

(* issueJwt deriving the subject from the personal number and the name *)
issueJwt_NamedSubject(claims, t, n) ==
    IF ~PrivateKeyLoads \/ env.JWT_HMAC_SECRET = "unset"
    THEN <<>>
    ELSE << [ header |-> [alg |-> "RS256", kid |-> KEY_ID],
              payload |-> [ auth_method |-> "bankid",
                            iat |-> t,
                            iss |-> ISSUER,
                            sub |-> HmacSha256Hex(env.JWT_HMAC_SECRET,
                                       claims.personalNumber \o claims.name),
                            jti |-> n,
                            exp |-> t + EXPIRY_S ],
              signature |-> "RS256(JWT_PRIVATE_KEY)" ] >>

(* issueJwt with the personal number itself as the subject *)
issueJwt_RawSubject(claims, t, n) ==
    IF ~PrivateKeyLoads \/ env.JWT_HMAC_SECRET = "unset"
    THEN <<>>
    ELSE << [ header |-> [alg |-> "RS256", kid |-> KEY_ID],
              payload |-> [ auth_method |-> "bankid",
                            iat |-> t,
                            iss |-> ISSUER,
                            sub |-> claims.personalNumber,
                            jti |-> n,
                            exp |-> t + EXPIRY_S ],
              signature |-> "RS256(JWT_PRIVATE_KEY)" ] >>

(* issueJwt(claims): <<jwt>>, or <<>> when it throws.  jti is a fresh      *)
(* UUID, modelled by the number of the issuance.                           *)
issueJwt(claims, t, n) ==
    IF ~PrivateKeyLoads \/ env.JWT_HMAC_SECRET = "unset"
    THEN <<>>
    ELSE << [ header |-> [alg |-> "RS256", kid |-> KEY_ID],
              payload |-> [ auth_method |-> "bankid",
                            iat |-> t,
                            iss |-> ISSUER,
                            sub |-> deriveSubject(claims.personalNumber),
                            jti |-> n,
                            exp |-> t + EXPIRY_S ],
              signature |-> "RS256(JWT_PRIVATE_KEY)" ] >>

----------------------------------------------------------------------------
(* lib/grandid.ts *)

(* What the GetSession call can resolve to for provider session g: the     *)
(* answer for the state of the transaction, or an errorObject of the       *)
(* provider with some other code.                                          *)
GetSessionResponses(g) ==
    { [errorObject |-> [code |-> "SERVER_ERROR", message |-> "error"]] }
    \cup
    IF g \notin DOMAIN grandid
    THEN {}
    ELSE LET tx == grandid[g] IN
      CASE tx.phase = "notLoggedIn" ->
             { [errorObject |-> [code |-> "NOTLOGGEDIN", message |-> "not logged in"]] }
        [] tx.phase = "pending" ->
             { [grandidObject |->
                  [code |-> "BANKID_MSG",
                   message |-> [status |-> "pending", hintCode |-> tx.hintCode],
                   sessionId |-> g, QRCode |-> "qr"]],
               [grandidObject |->
                  [code |-> "BANKID_MSG",
                   message |-> [status |-> "pending", hintCode |-> tx.hintCode],
                   sessionId |-> g]] }
        [] tx.phase = "failed" ->
             { [grandidObject |->
                  [code |-> "BANKID_MSG",
                   message |-> [status |-> "failed", hintCode |-> tx.hintCode],
                   sessionId |-> g]] }
        [] tx.phase = "complete" ->
             { [sessionId |-> g, username |-> tx.person.personalNumber,
                userAttributes |-> tx.person] }

isComplete(r) == "userAttributes" \in DOMAIN r

isPending(r) ==
    "grandidObject" \in DOMAIN r /\ r.grandidObject.message.status = "pending"

isFailed(r) ==
    "grandidObject" \in DOMAIN r /\ r.grandidObject.message.status = "failed"

isNotLoggedIn(r) ==
    "errorObject" \in DOMAIN r /\ r.errorObject.code = "NOTLOGGEDIN"

----------------------------------------------------------------------------
(* Responses *)

Response(code, body) == [code |-> code, body |-> body]

(* an exception that leaves the handler: the framework's bare 500 *)
Uncaught == [code |-> 500, uncaught |-> TRUE]

NoReply == [op |-> "none", sid |-> 0, resp |-> Nil]

Idle == [pc |-> "idle", sid |-> 0, g |-> "", upd |-> Nil, phase |-> "",
         raw |-> Nil, resp |-> Nil, calls |-> 0, threw |-> FALSE,
         retry |-> FALSE, got |-> Nil]

----------------------------------------------------------------------------
(* app/api/auth/[sessionId]/poll/route.ts *)

(* the short-circuit with the test for "failed" left out *)
ShortCircuit_CompleteOnly(session) ==
    IF session.status = "complete"
    THEN << Response(200, [status |-> "complete"]) >>
    ELSE <<>>

(* the short-circuit with the test for "complete" left out *)
ShortCircuit_FailedOnly(session) ==
    IF session.status = "failed"
    THEN << Response(200, IF "hintCode" \in DOMAIN session
                          THEN [status |-> "failed", hintCode |-> session.hintCode]
                          ELSE [status |-> "failed"]) >>
    ELSE <<>>

(* no short-circuit: every loaded session is polled at the provider *)
ShortCircuit_Never(session) == <<>>

(* The short-circuit on a stored terminal state: <<response>>, or <<>>     *)
(* when the handler goes on to poll the provider.                          *)
ShortCircuit(session) ==
    IF session.status = "complete"
    THEN << Response(200, [status |-> "complete"]) >>
    ELSE IF session.status = "failed"
    THEN << Response(200, IF "hintCode" \in DOMAIN session
                          THEN [status |-> "failed", hintCode |-> session.hintCode]
                          ELSE [status |-> "failed"]) >>
    ELSE <<>>

(* the catch around the provider call, treating it as a failed login *)
GrandidUnreachable_AsFailed ==
    [next |-> "update", phase |-> "failed",
     upd |-> [status |-> "failed", hintCode |-> "GRANDID_UNREACHABLE"],
     resp |-> Response(502, [error |-> "GRANDID_UNREACHABLE"])]

(* the catch around the provider call *)
GrandidUnreachable ==
    [next |-> "done", resp |-> Response(502, [error |-> "GRANDID_UNREACHABLE"])]

(* the update of the catch block without its reason code *)
JwtErrorUpdate_NoReason == [status |-> "failed"]

(* updateSession(sessionId, { status: 'failed', hintCode: 'JWT_ERROR' }) *)
JwtErrorUpdate == [status |-> "failed", hintCode |-> "JWT_ERROR"]

(* the update of the Complete branch without the credential *)
CompleteUpdate_NoJwt(jwt, ua, t) ==
    [ status |-> "complete",
      userAttributes |-> [personalNumber |-> ua.personalNumber, name |-> ua.name,
                          givenName |-> ua.givenName, surname |-> ua.surname],
      completedAt |-> t ]

CompleteUpdate(jwt, ua, t) ==
    [ status |-> "complete",
      jwt |-> jwt,
      userAttributes |-> [personalNumber |-> ua.personalNumber, name |-> ua.name,
                          givenName |-> ua.givenName, surname |-> ua.surname],
      completedAt |-> t ]

(* the Complete branch handing issueJwt the name for the personal number *)
OnComplete_Name(r, t, n) ==
    LET jwt == issueJwt([personalNumber |-> r.userAttributes.name], t, n) IN
    IF jwt # <<>>
    THEN [next |-> "update", phase |-> "try",
          upd |-> CompleteUpdate(jwt[1], r.userAttributes, t)]
    ELSE [next |-> "update", phase |-> "catch", upd |-> JwtErrorUpdate]

(* What the handler does with the provider's response r: either it         *)
(* answers at once (next = "done"), or it calls updateSession with upd.    *)
(* phase tells which updateSession call it is: the one in the try block,   *)
(* the one in the catch block, or the one of the Failed branch.            *)
OnComplete(r, t, n) ==
    LET jwt == issueJwt([personalNumber |-> r.userAttributes.personalNumber], t, n) IN
    IF jwt # <<>>
    THEN [next |-> "update", phase |-> "try",
          upd |-> CompleteUpdate(jwt[1], r.userAttributes, t)]
    ELSE [next |-> "update", phase |-> "catch", upd |-> JwtErrorUpdate]

(* the Failed branch storing a fixed reason for the provider's hint code *)
OnFailed_LostHint(r) ==
    [next |-> "update", phase |-> "failed",
     upd |-> [status |-> "failed", hintCode |-> "unknown"]]

OnFailed(r) ==
    [next |-> "update", phase |-> "failed",
     upd |-> [status |-> "failed", hintCode |-> r.grandidObject.message.hintCode]]

(* the Pending branch storing the hint code it returns *)
OnPending_Stored(r) ==
    [next |-> "update", phase |-> "failed",
     upd |-> [status |-> "pending", hintCode |-> r.grandidObject.message.hintCode]]

(* the Pending branch without the QR code of the response *)
OnPending_NoQr(r) ==
    [next |-> "done",
     resp |-> Response(200,
                [status |-> "pending",
                 hintCode |-> r.grandidObject.message.hintCode,
                 qrCode |-> "null"])]

OnPending(r) ==
    [next |-> "done",
     resp |-> Response(200,
                [status |-> "pending",
                 hintCode |-> r.grandidObject.message.hintCode,
                 qrCode |-> IF "QRCode" \in DOMAIN r.grandidObject
                            THEN r.grandidObject.QRCode ELSE "null"])]

OnNotLoggedIn ==
    [next |-> "done",
     resp |-> Response(200, [status |-> "pending",
                             hintCode |-> "outstandingTransaction"])]

OnUnexpected == [next |-> "done", resp |-> Response(200, [status |-> "pending"])]

OnGrandidResponse(r, t, n) ==
    IF isComplete(r) THEN OnComplete(r, t, n)
    ELSE IF isFailed(r) THEN OnFailed(r)
    ELSE IF isPending(r) THEN OnPending(r)
    ELSE IF isNotLoggedIn(r) THEN OnNotLoggedIn
    ELSE OnUnexpected

(* The response that follows an updateSession call that returned. *)
AfterUpdate(phase, upd) ==
    CASE phase = "try" -> Response(200, [status |-> "complete"])
      [] phase = "catch" -> Response(500, [status |-> "failed", hintCode |-> "JWT_ERROR"])
      [] phase = "failed" -> Response(200, [status |-> "failed", hintCode |-> upd.hintCode])

(* An updateSession call that threw: inside the try block the catch block  *)
(* runs; anywhere else the exception leaves the handler.                   *)
OnUpdateThrow(l) ==
    IF l.phase = "try"
    THEN [l EXCEPT !.pc = "update", !.phase = "catch", !.upd = JwtErrorUpdate,
                   !.raw = Nil]
    ELSE [l EXCEPT !.pc = "done", !.resp = Uncaught, !.upd = Nil, !.raw = Nil,
                   !.phase = ""]

Finish(l) ==
    [l EXCEPT !.pc = "done", !.resp = AfterUpdate(l.phase, l.upd), !.upd = Nil,
              !.raw = Nil, !.phase = ""]

(* const session = await getStoredSession(sessionId), and the checks that  *)
(* follow it without an await                                              *)
PollLoadStep(p, s) ==
    /\ poll[p].pc = "idle"
    /\ FreeSlot(p)
    /\ \E throws \in {FALSE, USE_REDIS} :
         poll' = [poll EXCEPT ![p] =
            IF throws
            THEN [Idle EXCEPT !.pc = "done", !.sid = s, !.resp = Uncaught]
            ELSE IF getSession(s) = <<>>
            THEN [Idle EXCEPT !.pc = "done", !.sid = s,
                     !.resp = Response(404, [error |-> "SESSION_NOT_FOUND"])]
            ELSE IF ShortCircuit(getSession(s)[1]) # <<>>
            THEN [Idle EXCEPT !.pc = "done", !.sid = s,
                     !.resp = ShortCircuit(getSession(s)[1])[1]]
            ELSE [Idle EXCEPT !.pc = "grandid", !.sid = s,
                     !.g = getSession(s)[1].grandidSessionId,
                     !.retry = s \in unreachable]]
    /\ UNCHANGED <<env, backends, now, store, grandid, released, issued, unreachable, calledAt>>
    /\ last' = NoReply

PollLoad(p, s) ==
    /\ PollLoadStep(p, s)
    /\ page' = page

(* grandidResponse = await getGrandidSession(session.grandidSessionId),    *)
(* the classification of the response and, for Complete, issueJwt          *)
PollGrandidStep(p) ==
    /\ poll[p].pc = "grandid"
    /\ \/ /\ poll' = [poll EXCEPT ![p] =
                 IF GrandidUnreachable.next = "done"
                 THEN [@ EXCEPT !.pc = "done", !.resp = GrandidUnreachable.resp,
                                !.calls = @ + 1, !.threw = TRUE]
                 ELSE [@ EXCEPT !.pc = "update", !.phase = GrandidUnreachable.phase,
                                !.upd = GrandidUnreachable.upd, !.calls = @ + 1,
                                !.threw = TRUE]]
          /\ UNCHANGED <<released, issued>>
       \/ \E r \in GetSessionResponses(poll[p].g) :
            LET o == OnGrandidResponse(r, now, issued + 1) IN
            /\ isComplete(r) => issued < MaxJwts
            /\ poll' = [poll EXCEPT ![p] =
                 IF o.next = "done"
                 THEN [@ EXCEPT !.pc = "done", !.resp = o.resp, !.calls = @ + 1,
                                !.got = r]
                 ELSE [@ EXCEPT !.pc = "update", !.phase = o.phase, !.upd = o.upd,
                                !.calls = @ + 1, !.got = r]]
            /\ released' = IF isComplete(r)
                           THEN released \cup
                                  {[g |-> poll[p].g,
                                    personalNumber |-> r.userAttributes.personalNumber]}
                           ELSE released
            /\ issued' = IF o.next = "update" /\ o.phase = "try"
                         THEN issued + 1
                         ELSE issued
    /\ UNCHANGED <<env, backends, now, store, grandid, page>>
    /\ last' = NoReply

PollGrandid(p) ==
    /\ PollGrandidStep(p)
    /\ unreachable' = unreachable
    /\ calledAt' = calledAt

(* the same step, remembering the sessions that were answered 502 *)
PollGrandidNoted(p) ==
    /\ PollGrandidStep(p)
    /\ unreachable' = IF poll'[p].threw
                      THEN unreachable \cup {poll[p].sid}
                      ELSE unreachable
    /\ calledAt' = calledAt

(* the same step, remembering when the provider was called for the session *)
PollGrandidTimed(p) ==
    /\ PollGrandidStep(p)
    /\ unreachable' = unreachable
    /\ calledAt' = [g \in DOMAIN calledAt \cup {poll[p].g} |->
                      IF g = poll[p].g THEN now ELSE calledAt[g]]

(* updateSession on the in-memory Map: no await between read and write *)
UpdateMem(p) ==
    /\ poll[p].pc = "update"
    /\ ~USE_REDIS
    /\ store' = IF getSession(poll[p].sid) # <<>>
                THEN Put(poll[p].sid,
                         UpdatedEntry(getSession(poll[p].sid)[1], poll[p].upd, now))
                ELSE store
    /\ poll' = [poll EXCEPT ![p] = Finish(@)]
    /\ UNCHANGED <<env, backends, now, grandid, released, issued, unreachable, calledAt, page>>
    /\ last' = NoReply

(* updateSession on Redis, first await: raw = await redis.get(key) *)
UpdateRedisGet(p) ==
    /\ poll[p].pc = "update"
    /\ USE_REDIS
    /\ \E throws \in BOOLEAN :
         poll' = [poll EXCEPT ![p] =
            IF throws THEN OnUpdateThrow(@)
            ELSE IF getSession(poll[p].sid) = <<>> THEN Finish(@)
            ELSE [@ EXCEPT !.pc = "set", !.raw = getSession(poll[p].sid)[1]]]
    /\ UNCHANGED <<env, backends, now, store, grandid, released, issued, unreachable, calledAt, page>>
    /\ last' = NoReply

(* updateSession on Redis, second await: redis.set(key, updated, {EX}) *)
UpdateRedisSet(p) ==
    /\ poll[p].pc = "set"
    /\ \E throws \in BOOLEAN :
         IF throws
         THEN /\ poll' = [poll EXCEPT ![p] = OnUpdateThrow(@)]
              /\ store' = store
         ELSE /\ store' = Put(poll[p].sid,
                              UpdatedEntry(poll[p].raw, poll[p].upd, now))
              /\ poll' = [poll EXCEPT ![p] = Finish(@)]
    /\ UNCHANGED <<env, backends, now, grandid, released, issued, unreachable, calledAt, page>>
    /\ last' = NoReply

(* the response is sent; the poller is free for its next invocation *)
PollReturnStep(p) ==
    /\ poll[p].pc = "done"
    /\ poll' = [poll EXCEPT ![p] = Idle]
    /\ UNCHANGED <<env, backends, now, store, grandid, released, issued, unreachable, calledAt>>
    /\ last' = NoReply

PollReturn(p) ==
    /\ PollReturnStep(p)
    /\ page' = page

----------------------------------------------------------------------------
(* app/api/auth/status/route.ts *)

(* the status response reporting an absent session as pending *)
StatusResponse_AbsentPending(found) ==
    IF found = <<>>
    THEN Response(200, [status |-> "pending"])
    ELSE LET session == found[1] IN
      IF session.status = "complete" /\ "jwt" \in DOMAIN session
      THEN Response(200, [status |-> "complete", jwt |-> session.jwt])
      ELSE IF session.status = "failed"
      THEN Response(200, [status |-> "failed",
                          hintCode |-> IF "hintCode" \in DOMAIN session
                                       THEN session.hintCode ELSE "unknown"])
      ELSE Response(200, [status |-> "pending"])

(* the status response with a fixed reason for every failed session *)
StatusResponse_FailedUnknown(found) ==
    IF found = <<>>
    THEN Response(404, [error |-> "SESSION_NOT_FOUND",
                        message |-> "Session not found or expired."])
    ELSE LET session == found[1] IN
      IF session.status = "complete" /\ "jwt" \in DOMAIN session
      THEN Response(200, [status |-> "complete", jwt |-> session.jwt])
      ELSE IF session.status = "failed"
      THEN Response(200, [status |-> "failed", hintCode |-> "unknown"])
      ELSE Response(200, [status |-> "pending"])

(* the status response for a complete session without its credential *)
StatusResponse_NoJwt(found) ==
    IF found = <<>>
    THEN Response(404, [error |-> "SESSION_NOT_FOUND",
                        message |-> "Session not found or expired."])
    ELSE LET session == found[1] IN
      IF session.status = "complete" /\ "jwt" \in DOMAIN session
      THEN Response(200, [status |-> "complete"])
      ELSE IF session.status = "failed"
      THEN Response(200, [status |-> "failed",
                          hintCode |-> IF "hintCode" \in DOMAIN session
                                       THEN session.hintCode ELSE "unknown"])
      ELSE Response(200, [status |-> "pending"])

StatusResponse(found) ==
    IF found = <<>>
    THEN Response(404, [error |-> "SESSION_NOT_FOUND",
                        message |-> "Session not found or expired."])
    ELSE LET session == found[1] IN
      IF session.status = "complete" /\ "jwt" \in DOMAIN session
      THEN Response(200, [status |-> "complete", jwt |-> session.jwt])
      ELSE IF session.status = "failed"
      THEN Response(200, [status |-> "failed",
                          hintCode |-> IF "hintCode" \in DOMAIN session
                                       THEN session.hintCode ELSE "unknown"])
      ELSE Response(200, [status |-> "pending"])

(* the request carries no sessionId *)
StatusMissingId ==
    /\ last' = [op |-> "status", sid |-> 0,
                resp |-> Response(400, [error |-> "MISSING_SESSION_ID",
                                        message |-> "sessionId query param is required."])]
    /\ UNCHANGED <<env, backends, now, store, grandid, poll, released, issued, unreachable, calledAt, page>>

(* status renewing the expiry of the record it read *)
Status_Refreshing(s) ==
    /\ \E throws \in {FALSE, USE_REDIS} :
         last' = [op |-> "status", sid |-> s,
                  resp |-> IF throws THEN Uncaught ELSE StatusResponse(getSession(s))]
    /\ store' = IF s \in DOMAIN store
                THEN Put(s, Entry(store[s].val, ttlFor(store[s].val), now))
                ELSE store
    /\ UNCHANGED <<env, backends, now, grandid, poll, released, issued, unreachable, calledAt, page>>

Status(s) ==
    /\ \E throws \in {FALSE, USE_REDIS} :
         last' = [op |-> "status", sid |-> s,
                  resp |-> IF throws THEN Uncaught ELSE StatusResponse(getSession(s))]
    /\ UNCHANGED <<env, backends, now, store, grandid, poll, released, issued, unreachable, calledAt, page>>

----------------------------------------------------------------------------
(* app/api/auth/start/route.ts *)

(* federatedLogin answered with a session id g: createSession, respond *)
StartCreated(sessionId, g, t) ==
    Response(200, [sessionId |-> sessionId, authUrl |-> <<"/auth", sessionId>>,
                   expiresAt |-> t + START_EXPIRES_S])

(* the catch of the handler *)
StartInternalError ==
    Response(500, [error |-> "INTERNAL_ERROR",
                   message |-> "Failed to start authentication."])

(* Calls to start are followed while a session id of the model is free.    *)
NextId == Cardinality(DOMAIN grandid) + 1

(* start without the guard on the provider credentials *)
StartMisconfigured_Proceeds ==
    /\ ~env.GRANDID_KEYS
    /\ NextId \in SessionIds
    /\ grandid' = [k \in DOMAIN grandid \cup {GrandidId(NextId)} |->
                     IF k = GrandidId(NextId)
                     THEN [phase |-> "notLoggedIn"]
                     ELSE grandid[k]]
    /\ store' = Put(NextId, Entry(NewSession(GrandidId(NextId), now),
                                  PENDING_TTL_S, now))
    /\ last' = [op |-> "start", sid |-> NextId,
                resp |-> StartCreated(NextId, GrandidId(NextId), now)]
    /\ UNCHANGED <<env, backends, now, poll, released, issued, unreachable, calledAt, page>>

(* the guard on the provider credentials *)
StartMisconfigured ==
    /\ ~env.GRANDID_KEYS
    /\ NextId \in SessionIds
    /\ last' = [op |-> "start", sid |-> 0,
                resp |-> Response(503, [error |-> "SERVICE_MISCONFIGURED",
                                        message |-> "GrandID credentials are not set."])]
    /\ UNCHANGED <<env, backends, now, store, grandid, poll, released, issued, unreachable, calledAt, page>>

(* federatedLogin answers with an errorObject or without a sessionId, or   *)
(* the call throws                                                         *)
StartProviderError ==
    /\ env.GRANDID_KEYS
    /\ NextId \in SessionIds
    /\ \E answer \in {"errorObject", "noSessionId", "throws"} :
         last' = [op |-> "start", sid |-> 0,
                  resp |-> CASE answer = "errorObject" ->
                                  Response(502, [error |-> "SERVER_ERROR",
                                                 message |-> "error"])
                             [] answer = "noSessionId" ->
                                  Response(502, [error |-> "GRANDID_ERROR",
                                                 message |-> "Failed to initialise BankID session."])
                             [] answer = "throws" -> StartInternalError]
    /\ UNCHANGED <<env, backends, now, store, grandid, poll, released, issued, unreachable, calledAt, page>>

(* federatedLogin answers with a sessionId; createSession; the response *)
StartSession ==
    /\ env.GRANDID_KEYS
    /\ NextId \in SessionIds
    /\ grandid' = [k \in DOMAIN grandid \cup {GrandidId(NextId)} |->
                     IF k = GrandidId(NextId)
                     THEN [phase |-> "notLoggedIn"]
                     ELSE grandid[k]]
    /\ \E throws \in {FALSE, USE_REDIS} :
         IF throws
         THEN /\ store' = store
              /\ last' = [op |-> "start", sid |-> 0,
                          resp |-> StartInternalError]
         ELSE /\ store' = Put(NextId, Entry(NewSession(GrandidId(NextId), now),
                                            PENDING_TTL_S, now))
              /\ last' = [op |-> "start", sid |-> NextId,
                          resp |-> StartCreated(NextId, GrandidId(NextId), now)]
    /\ UNCHANGED <<env, backends, now, poll, released, issued, unreachable, calledAt, page>>

----------------------------------------------------------------------------
(* app/api/jwks/route.ts *)

getPublicJwk ==
    IF env.JWT_PUBLIC_KEY = "valid"
    THEN << [kty |-> "RSA", use |-> "sig", alg |-> "RS256", kid |-> KEY_ID,
             n |-> "modulus", e |-> "AQAB"] >>
    ELSE <<>>

(* jwks advertising the hour of the README *)
Jwks_HourCache ==
    /\ last' = [op |-> "jwks", sid |-> 0,
                resp |-> IF getPublicJwk # <<>>
                         THEN [code |-> 200, body |-> [keys |-> getPublicJwk],
                               maxAge |-> 3600]
                         ELSE Response(500, [error |-> "Failed to load public key."])]
    /\ UNCHANGED <<env, backends, now, store, grandid, poll, released, issued, unreachable, calledAt, page>>

Jwks ==
    /\ last' = [op |-> "jwks", sid |-> 0,
                resp |-> IF getPublicJwk # <<>>
                         THEN [code |-> 200, body |-> [keys |-> getPublicJwk],
                               maxAge |-> JWKS_MAX_AGE_S]
                         ELSE Response(500, [error |-> "Failed to load public key."])]
    /\ UNCHANGED <<env, backends, now, store, grandid, poll, released, issued, unreachable, calledAt, page>>

----------------------------------------------------------------------------
(* The environment: the user and the provider, and the clock *)

(* the user opens the page and the BankID app; the provider's transaction  *)
(* moves notLoggedIn -> pending -> complete | failed and stays there       *)
GrandidAdvance(g) ==
    /\ g \in DOMAIN grandid
    /\ \/ /\ grandid[g].phase = "notLoggedIn"
          /\ \E h \in PendingHints :
               grandid' = [grandid EXCEPT ![g] =
                  [phase |-> "pending", hintCode |-> h]]
       \/ /\ grandid[g].phase = "pending"
          /\ \E person \in Persons :
               grandid' = [grandid EXCEPT ![g] =
                  [phase |-> "complete", person |-> person]]
       \/ /\ grandid[g].phase = "pending"
          /\ \E h \in FailedHints :
               grandid' = [grandid EXCEPT ![g] =
                  [phase |-> "failed", hintCode |-> h]]
    /\ UNCHANGED <<env, backends, now, store, poll, released, issued, unreachable, calledAt, page>>
    /\ last' = NoReply

(* time passes; Redis drops the keys whose EX has run out *)
Tick ==
    /\ now < MaxTicks * TickS
    /\ now' = now + TickS
    /\ store' = [k \in {k \in DOMAIN store : ~Expired(store[k], now + TickS)} |->
                    store[k]]
    /\ UNCHANGED <<env, backends, grandid, poll, released, issued, unreachable, calledAt, page>>
    /\ last' = NoReply

----------------------------------------------------------------------------
(* lib/store.ts under both backends: the same sequence of createSession,   *)
(* updateSession calls and passages of time applied to the in-memory Map   *)
(* (backends.mem) and to Redis (backends.redis)                            *)

BackendIds == {1, 2}

(* the updates the callers of updateSession make *)
BackendUpdates(t) ==
    { [status |-> "failed", hintCode |-> "userCancel"],
      [status |-> "complete", jwt |-> "jwt", completedAt |-> t] }

EntryOf(redis, session, ttl, t) ==
    IF redis THEN [val |-> session, exp |-> t + ttl] ELSE [val |-> session]

createSessionIn(redis, S, sessionId, grandidSessionId, t) ==
    [k \in DOMAIN S \cup {sessionId} |->
        IF k = sessionId
        THEN EntryOf(redis, NewSession(grandidSessionId, t), PENDING_TTL_S, t)
        ELSE S[k]]

getSessionIn(S, sessionId) ==
    IF sessionId \in DOMAIN S THEN <<S[sessionId].val>> ELSE <<>>

updateSessionIn(redis, S, sessionId, updates, t) ==
    IF sessionId \in DOMAIN S
    THEN [S EXCEPT ![sessionId] =
            EntryOf(redis, Merge(S[sessionId].val, updates),
                    ttlFor(Merge(S[sessionId].val, updates)), t)]
    ELSE S

(* the keys Redis still holds at time t *)
Unexpired(S, t) == [k \in {k \in DOMAIN S : ~Expired(S[k], t)} |-> S[k]]

BackendsCreate ==
    /\ Cardinality(DOMAIN backends.mem) + 1 \in BackendIds
    /\ LET id == Cardinality(DOMAIN backends.mem) + 1 IN
       backends' =
         [mem |-> createSessionIn(FALSE, backends.mem, id, GrandidId(id), now),
          redis |-> createSessionIn(TRUE, backends.redis, id, GrandidId(id), now)]
    /\ UNCHANGED <<env, now, store, grandid, poll, last, released, issued,
                   unreachable, calledAt, page>>

BackendsUpdate(id, updates) ==
    /\ backends' =
         [mem |-> updateSessionIn(FALSE, backends.mem, id, updates, now),
          redis |-> updateSessionIn(TRUE, backends.redis, id, updates, now)]
    /\ UNCHANGED <<env, now, store, grandid, poll, last, released, issued,
                   unreachable, calledAt, page>>

BackendsTick ==
    /\ now < MaxTicks * TickS
    /\ now' = now + TickS
    /\ backends' = [mem |-> backends.mem,
                    redis |-> Unexpired(backends.redis, now + TickS)]
    /\ UNCHANGED <<env, store, grandid, poll, last, released, issued, unreachable, calledAt, page>>

----------------------------------------------------------------------------

(* app/auth/[sessionId]/page.tsx: the auth page.  `polling` is "mount"    *)
(* before the first poll, "first" while start() awaits it, "interval"      *)
(* while the 2-second interval runs and "stopped" once it is cleared or    *)
(* never set.                                                              *)

(* what poll() makes of a response: the screen it sets ("": none) and its  *)
(* return value keepGoing.  A body that is not JSON makes res.json() throw *)
(* into the catch; a body without status falls through to pending.         *)
PageOnResponse(resp) ==
    IF resp.code = 404
    THEN [screen |-> "not_found", keepGoing |-> FALSE]
    ELSE IF "body" \notin DOMAIN resp
    THEN [screen |-> "", keepGoing |-> TRUE]
    ELSE IF "status" \in DOMAIN resp.body /\ resp.body.status = "complete"
    THEN [screen |-> "complete", keepGoing |-> FALSE]
    ELSE IF "status" \in DOMAIN resp.body /\ resp.body.status = "failed"
    THEN [screen |-> "failed", keepGoing |-> FALSE]
    ELSE [screen |-> "pending", keepGoing |-> TRUE]

(* fetch(`/api/auth/${sessionId}/poll`) by start() or by the interval      *)
(* callback, which fires whether or not an earlier poll has returned; the  *)
(* page is opened at the authUrl that start returned                       *)
PageFetch(p, s) ==
    /\ page.polling \in {"mount", "interval"}
    /\ GrandidId(s) \in DOMAIN grandid
    /\ PollLoadStep(p, s)
    /\ page' = [page EXCEPT !.polling = IF @ = "mount" THEN "first" ELSE @]

(* the response of a poll arrives at the page *)
PageReceive(p) ==
    /\ PollReturnStep(p)
    /\ LET o == PageOnResponse(poll[p].resp) IN
       page' = [screen |-> IF o.screen = "" THEN page.screen ELSE o.screen,
                polling |-> IF page.polling = "first"
                            THEN IF o.keepGoing THEN "interval" ELSE "stopped"
                            ELSE IF o.keepGoing THEN page.polling ELSE "stopped"]

Init ==
    /\ env \in Envs
    /\ now = 0
    /\ store = [k \in {} |-> Nil]
    /\ grandid = [k \in {} |-> Nil]
    /\ poll = [p \in Pollers |-> Idle]
    /\ last = NoReply
    /\ released = {}
    /\ issued = 0
    /\ unreachable = {}
    /\ calledAt = [g \in {} |-> 0]
    /\ page = [screen |-> "loading", polling |-> "mount"]
    /\ backends = [mem |-> [k \in {} |-> Nil], redis |-> [k \in {} |-> Nil]]

Next ==
    \/ StartMisconfigured
    \/ StartProviderError
    \/ StartSession
    \/ \E p \in Pollers, s \in SessionIds : PollLoad(p, s)
    \/ \E p \in Pollers : PollGrandid(p)
    \/ \E p \in Pollers : UpdateMem(p)
    \/ \E p \in Pollers : UpdateRedisGet(p)
    \/ \E p \in Pollers : UpdateRedisSet(p)
    \/ \E p \in Pollers : PollReturn(p)
    \/ StatusMissingId
    \/ \E s \in SessionIds : Status(s)
    \/ Jwks
    \/ \E g \in DOMAIN grandid : GrandidAdvance(g)
    \/ Tick

Spec == Init /\ [][Next]_vars

(* The session, its polls and the provider alone, with the 502 answers     *)
(* remembered: what a caller that polls again after a 502 can see.         *)
NextRetry ==
    \/ StartSession
    \/ \E p \in Pollers, s \in SessionIds : PollLoad(p, s)
    \/ \E p \in Pollers : PollGrandidNoted(p)
    \/ \E p \in Pollers : UpdateMem(p)
    \/ \E p \in Pollers : UpdateRedisGet(p)
    \/ \E p \in Pollers : UpdateRedisSet(p)
    \/ \E p \in Pollers : PollReturn(p)
    \/ \E g \in DOMAIN grandid : GrandidAdvance(g)
    \/ Tick

SpecRetry == Init /\ [][NextRetry]_vars

(* The session, its polls and the provider, with the time of the provider  *)
(* calls remembered.                                                       *)
NextTimed ==
    \/ StartSession
    \/ \E p \in Pollers, s \in SessionIds : PollLoad(p, s)
    \/ \E p \in Pollers : PollGrandidTimed(p)
    \/ \E p \in Pollers : UpdateMem(p)
    \/ \E p \in Pollers : UpdateRedisGet(p)
    \/ \E p \in Pollers : UpdateRedisSet(p)
    \/ \E p \in Pollers : PollReturn(p)
    \/ \E g \in DOMAIN grandid : GrandidAdvance(g)
    \/ Tick

SpecTimed == Init /\ [][NextTimed]_vars

(* One auth page polling its session: every poll is a fetch of the page    *)
(* and every response is delivered to it.                                  *)
NextPage ==
    \/ StartSession
    \/ \E p \in Pollers, s \in SessionIds : PageFetch(p, s)
    \/ \E p \in Pollers : PollGrandid(p)
    \/ \E p \in Pollers : UpdateMem(p)
    \/ \E p \in Pollers : UpdateRedisGet(p)
    \/ \E p \in Pollers : UpdateRedisSet(p)
    \/ \E p \in Pollers : PageReceive(p)
    \/ \E g \in DOMAIN grandid : GrandidAdvance(g)
    \/ Tick

SpecPage == Init /\ [][NextPage]_vars

(* The session store alone, both backends side by side. *)
NextBackends ==
    \/ BackendsCreate
    \/ \E id \in BackendIds : \E updates \in BackendUpdates(now) :
         BackendsUpdate(id, updates)
    \/ BackendsTick

SpecBackends == Init /\ [][NextBackends]_vars

----------------------------------------------------------------------------
(* Properties *)

Terminal == {"complete", "failed"}

Stored(s) == s \in DOMAIN store
Rec(s) == store[s].val

(* the step is the load of a poll by p that found a record *)
Loads(p) ==
    /\ poll[p].pc = "idle"
    /\ poll'[p].pc # "idle"
    /\ poll'[p].resp # Uncaught
    /\ Stored(poll'[p].sid)

(* the step is a write of p's updateSession *)
Writes(p) ==
    /\ poll[p].pc \in {"update", "set"}
    /\ poll'[p].pc = "done"
    /\ store' # store

(* C1: under any interleaving of polls the stored status of a session only *)
(* changes from pending: no write changes complete to failed or failed to  *)
(* complete.                                                               *)
C1_StatusLeavesOnlyPending ==
    [][\A s \in SessionIds :
         (Stored(s) /\ s \in DOMAIN store'
            /\ store'[s].val.status # Rec(s).status)
         => Rec(s).status = "pending"]_vars

(* C2: once the stored status of a session is complete or failed, it is    *)
(* never pending again while the record exists.                            *)
C2_TerminalNeverPending ==
    [][\A s \in SessionIds :
         (Stored(s) /\ Rec(s).status \in Terminal /\ s \in DOMAIN store')
         => store'[s].val.status # "pending"]_vars

(* two polls have each stored the provider's failure, the second over the *)
(* first                                                                   *)
C2_Witness ==
    \E s \in SessionIds :
        /\ Stored(s) /\ Rec(s).status = "failed"
        /\ \A p \in Pollers :
             /\ poll[p].pc = "done" /\ poll[p].sid = s /\ poll[p].calls = 1
             /\ poll[p].resp = Response(200, [status |-> "failed",
                                              hintCode |-> Rec(s).hintCode])

(* C3: a poll that loads a session whose stored status is complete or      *)
(* failed returns the stored result and does nothing else: no call to the  *)
(* provider, no credential issued, no write to the store.                  *)
C3_TerminalShortCircuit ==
    [][\A p \in Pollers :
         (Loads(p) /\ Rec(poll'[p].sid).status \in Terminal)
         => /\ poll'[p].pc = "done"
            /\ poll'[p].calls = 0
            /\ poll'[p].resp =
                 IF Rec(poll'[p].sid).status = "complete"
                 THEN Response(200, [status |-> "complete"])
                 ELSE IF "hintCode" \in DOMAIN Rec(poll'[p].sid)
                 THEN Response(200, [status |-> "failed",
                                     hintCode |-> Rec(poll'[p].sid).hintCode])
                 ELSE Response(200, [status |-> "failed"])
            /\ store' = store
            /\ issued' = issued
            /\ released' = released]_vars

C3_Witness ==
    \E p \in Pollers :
        /\ poll[p].pc = "done" /\ poll[p].calls = 0
        /\ Stored(poll[p].sid) /\ Rec(poll[p].sid).status = "failed"
        /\ poll[p].resp = Response(200, [status |-> "failed",
                                         hintCode |-> Rec(poll[p].sid).hintCode])

(* C4: the credential of a session is written at most once: a stored       *)
(* credential is never replaced by another.                                *)
C4_CredentialWrittenOnce ==
    [][\A s \in SessionIds :
         (Stored(s) /\ "jwt" \in DOMAIN Rec(s)
            /\ s \in DOMAIN store' /\ "jwt" \in DOMAIN store'[s].val)
         => store'[s].val.jwt = Rec(s).jwt]_vars

(* C4 as amended: every credential written to the store was issued by a   *)
(* poll that loaded the session while it was pending and then observed     *)
(* Complete; such a poll issues one credential, and a poll that loads the  *)
(* session once a terminal status or a credential is stored issues and     *)
(* stores none.  Polls that loaded the session pending may each issue and  *)
(* store a credential, the last write winning.                             *)
C4_CredentialsFromPendingLoaders ==
    [][/\ \A s \in SessionIds :
            (s \in DOMAIN store' /\ "jwt" \in DOMAIN store'[s].val
               /\ ~(Stored(s) /\ "jwt" \in DOMAIN Rec(s)
                      /\ Rec(s).jwt = store'[s].val.jwt))
            => \E p \in Pollers :
                 /\ Writes(p) /\ poll[p].sid = s
                 /\ \/ /\ poll[p].phase = "try" /\ poll[p].calls = 1
                       /\ poll[p].upd.jwt = store'[s].val.jwt
                    \/ /\ "jwt" \in DOMAIN poll[p].raw
                       /\ poll[p].raw.jwt = store'[s].val.jwt
       /\ issued' # issued
          => /\ issued' = issued + 1
             /\ \E p \in Pollers :
                  /\ poll[p].pc = "grandid" /\ poll[p].calls = 0
                  /\ poll'[p].pc = "update" /\ poll'[p].phase = "try"
                  /\ poll'[p].upd.jwt.payload.jti = issued'
       /\ \A p \in Pollers :
            (Loads(p) /\ (Rec(poll'[p].sid).status \in Terminal
                            \/ "jwt" \in DOMAIN Rec(poll'[p].sid)))
            => poll'[p].pc = "done" /\ issued' = issued /\ store' = store]_vars

(* two polls have each issued a credential and the second one is stored *)
C4_Witness ==
    \E s \in SessionIds :
        Stored(s) /\ "jwt" \in DOMAIN Rec(s) /\ Rec(s).jwt.payload.jti = 2

(* C5: a session is complete, with a credential, only after the provider   *)
(* returned Complete for the session's own provider session id, and the    *)
(* credential's subject is derived from the personalNumber of that         *)
(* response; start and status never make a session complete.               *)
CompleteFromProvider(st) ==
    \A s \in DOMAIN st :
        st[s].val.status = "complete"
        => /\ "jwt" \in DOMAIN st[s].val
           /\ \E rel \in released :
                /\ rel.g = st[s].val.grandidSessionId
                /\ st[s].val.jwt.payload.sub =
                     HmacSha256Hex(env.JWT_HMAC_SECRET, rel.personalNumber)

C5_CompleteOnlyFromProvider ==
    [][/\ CompleteFromProvider(store')
       /\ last'.op \in {"start", "status", "jwks"}
          => \A s \in DOMAIN store' :
               store'[s].val.status = "complete"
               => Stored(s) /\ Rec(s).status = "complete"]_vars

C5_Witness ==
    \E s \in SessionIds :
        /\ Stored(s) /\ Rec(s).status = "complete"
        /\ last.op = "status" /\ last.resp.code = 200

(* C6: no response of start, poll, status or jwks and no claim of an       *)
(* issued credential contains the personalNumber, name, givenName or       *)
(* surname the provider released; what leaves the service of the personal  *)
(* number is the HMAC subject of the credential.                           *)
PIIFields == {"personalNumber", "name", "givenName", "surname", "userAttributes"}

PIIValues ==
    UNION { {x.personalNumber, x.name, x.givenName, x.surname} : x \in Persons }

TextFields == {"status", "hintCode", "qrCode", "error", "message"}

JwtWithoutPII(jwt) ==
    /\ DOMAIN jwt = {"header", "payload", "signature"}
    /\ DOMAIN jwt.header = {"alg", "kid"}
    /\ DOMAIN jwt.payload = {"auth_method", "iat", "iss", "sub", "jti", "exp"}
    /\ {jwt.header.alg, jwt.header.kid, jwt.payload.auth_method,
        jwt.payload.iss, jwt.payload.sub, jwt.signature} \cap PIIValues = {}
    /\ \E x \in Persons :
         jwt.payload.sub = HmacSha256Hex(env.JWT_HMAC_SECRET, x.personalNumber)

ResponseWithoutPII(resp) ==
    "body" \in DOMAIN resp
    => /\ DOMAIN resp.body \cap PIIFields = {}
       /\ DOMAIN resp.body \subseteq
            TextFields \cup {"jwt", "sessionId", "authUrl", "expiresAt", "keys"}
       /\ \A f \in DOMAIN resp.body \cap TextFields : resp.body[f] \notin PIIValues
       /\ "jwt" \in DOMAIN resp.body => JwtWithoutPII(resp.body.jwt)
       /\ "keys" \in DOMAIN resp.body
          => \A i \in DOMAIN resp.body.keys :
               DOMAIN resp.body.keys[i] = {"kty", "use", "alg", "kid", "n", "e"}

C6_NoPIILeavesTheService ==
    /\ \A p \in Pollers : poll[p].pc = "done" => ResponseWithoutPII(poll[p].resp)
    /\ last.op # "none" => ResponseWithoutPII(last.resp)
    /\ \A s \in DOMAIN store : "jwt" \in DOMAIN Rec(s) => JwtWithoutPII(Rec(s).jwt)
    /\ \A p \in Pollers :
         "jwt" \in DOMAIN poll[p].upd => JwtWithoutPII(poll[p].upd.jwt)

C6_Witness ==
    /\ last.op = "status"
    /\ "body" \in DOMAIN last.resp
    /\ "jwt" \in DOMAIN last.resp.body
    /\ \E s \in DOMAIN store :
         /\ "userAttributes" \in DOMAIN Rec(s)
         /\ last.resp.body.jwt.payload.sub =
              HmacSha256Hex(env.JWT_HMAC_SECRET, Rec(s).userAttributes.personalNumber)

(* C7: in every reachable store state a session record holds a credential  *)
(* and userAttributes only if its status is complete.                      *)
C7_CredentialOnlyIfComplete ==
    \A s \in DOMAIN store :
        ("jwt" \in DOMAIN Rec(s) \/ "userAttributes" \in DOMAIN Rec(s))
        => Rec(s).status = "complete"

(* C8: in every reachable store state a session record holds a failure     *)
(* reason (hintCode) only if its status is failed.                         *)
C8_HintCodeOnlyIfFailed ==
    \A s \in DOMAIN store :
        "hintCode" \in DOMAIN Rec(s) => Rec(s).status = "failed"

(* C9: in every reachable store state a record with status complete holds  *)
(* a credential that a successful issuance produced for the personalNumber *)
(* in the same record's userAttributes; no empty or partial credential is  *)
(* stored.                                                                 *)
C9_CompleteHoldsItsCredential ==
    \A s \in DOMAIN store :
        Rec(s).status = "complete"
        => /\ "jwt" \in DOMAIN Rec(s)
           /\ "userAttributes" \in DOMAIN Rec(s)
           /\ Rec(s).jwt.payload.jti \in 1..issued
           /\ <<Rec(s).jwt>> =
                issueJwt([personalNumber |-> Rec(s).userAttributes.personalNumber],
                         Rec(s).jwt.payload.iat, Rec(s).jwt.payload.jti)

(* two polls observed the completion and the record is complete *)
C9_Witness ==
    \E s \in DOMAIN store :
        /\ Rec(s).status = "complete" /\ issued = 2
        /\ \A p \in Pollers :
             /\ poll[p].pc = "done" /\ poll[p].sid = s /\ poll[p].calls = 1
             /\ poll[p].resp = Response(200, [status |-> "complete"])

(* C10: when the provider call of a poll fails in transport the poll       *)
(* answers 502, retryable, and writes nothing: the session is as it was,   *)
(* and a later poll of it calls the provider again.                        *)
C10_UnreachableLeavesSessionAlone ==
    [][\A p \in Pollers :
         /\ (poll'[p].threw /\ ~poll[p].threw)
            => /\ poll'[p].pc = "done"
               /\ poll'[p].resp = Response(502, [error |-> "GRANDID_UNREACHABLE"])
               /\ store' = store
               /\ issued' = issued
         /\ (poll[p].threw /\ poll'[p] # poll[p]) => poll'[p].pc = "idle"
         /\ (Loads(p) /\ poll'[p].retry /\ Rec(poll'[p].sid).status = "pending")
            => poll'[p].pc = "grandid" ]_vars

(* a poll that began after a 502 for the session has completed it *)
C10_Witness ==
    \E p \in Pollers :
        /\ poll[p].retry /\ poll[p].pc = "done" /\ poll[p].calls = 1
        /\ poll[p].resp = Response(200, [status |-> "complete"])
        /\ Stored(poll[p].sid) /\ Rec(poll[p].sid).status = "complete"

(* the step in which p's provider call returned Complete and issueJwt a   *)
(* credential                                                              *)
Issues(p) ==
    /\ poll[p].pc = "grandid"
    /\ poll'[p].pc = "update"
    /\ poll'[p].phase = "try"

(* C11: when a poll of a pending session observes Complete with personal   *)
(* number pn and signing succeeds, one store update sets status complete,  *)
(* the credential, userAttributes and completedAt together, the poll       *)
(* returns {status: complete}, and the status query that follows returns   *)
(* {status: complete, jwt} with the jwt's subject equal to                 *)
(* HMAC(secret, pn).                                                       *)
C11_CompleteIsOneUpdate ==
    [][\A p \in Pollers :
         /\ Issues(p)
            => /\ DOMAIN poll'[p].upd =
                    {"status", "jwt", "userAttributes", "completedAt"}
               /\ poll'[p].upd.status = "complete"
               /\ \E rel \in released' :
                    /\ rel.g = poll[p].g
                    /\ poll'[p].upd.userAttributes.personalNumber = rel.personalNumber
                    /\ poll'[p].upd.jwt.payload.sub =
                         HmacSha256Hex(env.JWT_HMAC_SECRET, rel.personalNumber)
               /\ store' = store
         /\ (Writes(p) /\ poll[p].phase = "try")
            => LET s == poll[p].sid IN
               /\ s \in DOMAIN store'
               /\ \A f \in DOMAIN poll[p].upd :
                    /\ f \in DOMAIN store'[s].val
                    /\ store'[s].val[f] = poll[p].upd[f]
               /\ poll'[p].resp = Response(200, [status |-> "complete"])
               /\ StatusResponse(<<store'[s].val>>) =
                    Response(200, [status |-> "complete", jwt |-> poll[p].upd.jwt])]_vars

(* scenario B: Complete for 199001010000 on a poll, the poll answered      *)
(* complete, and the status query returned the credential                  *)
C11_Witness ==
    \E p \in Pollers :
        /\ poll[p].pc = "done" /\ poll[p].calls = 1
        /\ poll[p].resp = Response(200, [status |-> "complete"])
        /\ last.op = "status" /\ last.sid = poll[p].sid
        /\ "body" \in DOMAIN last.resp
        /\ DOMAIN last.resp.body = {"status", "jwt"}
        /\ last.resp.body.status = "complete"
        /\ last.resp.body.jwt.payload.sub =
             HmacSha256Hex(env.JWT_HMAC_SECRET, "199001010000")
        /\ Rec(poll[p].sid).userAttributes.personalNumber = "199001010000"

(* issueJwt throws in this process: the private key does not load or the *)
(* HMAC secret is not set                                                  *)
IssuanceFails == issueJwt([personalNumber |-> "199001010000"], 0, 1) = <<>>

JwtErrorResponse(code) ==
    Response(code, [status |-> "failed", hintCode |-> "JWT_ERROR"])

(* C12: when a poll observes Complete and issuing the credential fails,    *)
(* the session is stored as failed with the reason JWT_ERROR and without   *)
(* a credential, the poll answers with the issuance error, and every       *)
(* later poll and status call of the stored record reports failed with     *)
(* that reason, the poll without calling the provider.                     *)
C12_IssuanceFailureIsStored ==
    [][IssuanceFails =>
         /\ issued' = 0
         /\ \A p \in Pollers :
              /\ (poll[p].pc = "grandid" /\ poll[p].g \in DOMAIN grandid
                    /\ grandid[poll[p].g].phase = "complete"
                    /\ poll'[p].pc = "update")
                 => /\ poll'[p].phase = "catch"
                    /\ poll'[p].upd = [status |-> "failed", hintCode |-> "JWT_ERROR"]
              /\ (Writes(p) /\ poll[p].phase = "catch")
                 => /\ store'[poll[p].sid].val.status = "failed"
                    /\ store'[poll[p].sid].val.hintCode = "JWT_ERROR"
                    /\ poll'[p].resp = JwtErrorResponse(500)
              /\ (Loads(p) /\ Rec(poll'[p].sid).status = "failed"
                    /\ Rec(poll'[p].sid).hintCode = "JWT_ERROR")
                 => /\ poll'[p].pc = "done" /\ poll'[p].calls = 0
                    /\ poll'[p].resp = JwtErrorResponse(200)
         /\ \A s \in DOMAIN store' :
              /\ "jwt" \notin DOMAIN store'[s].val
              /\ store'[s].val.status # "complete"
              /\ (Stored(s) /\ Rec(s).status = "failed"
                    /\ Rec(s).hintCode = "JWT_ERROR")
                 => store'[s].val = Rec(s)
              /\ (last'.op = "status" /\ last'.sid = s /\ last'.resp # Uncaught
                    /\ store'[s].val.status = "failed"
                    /\ store'[s].val.hintCode = "JWT_ERROR")
                 => last'.resp = JwtErrorResponse(200)]_vars

(* the private key is malformed; the session is stored failed/JWT_ERROR;   *)
(* a later poll short-circuited and the status query reported it           *)
C12_Witness ==
    /\ env.JWT_PRIVATE_KEY = "malformed"
    /\ \E p \in Pollers :
         /\ poll[p].pc = "done" /\ poll[p].calls = 0
         /\ poll[p].resp = JwtErrorResponse(200)
         /\ Stored(poll[p].sid)
         /\ Rec(poll[p].sid).hintCode = "JWT_ERROR"
         /\ last.op = "status" /\ last.resp = JwtErrorResponse(200)

FailedResponse(h) == Response(200, [status |-> "failed", hintCode |-> h])

(* C13: when a poll of a pending session observes Failed with hint code h, *)
(* the session is stored as failed with reason h, and from then on, while  *)
(* the record is retained, every poll and every status call returns        *)
(* {status: failed, hintCode: h}, the poll without calling the provider.   *)
C13_FailedIsStoredAndReported ==
    [][/\ \A p \in Pollers :
            /\ (poll[p].pc = "grandid" /\ poll'[p].pc = "update"
                  /\ grandid[poll[p].g].phase = "failed")
               => /\ poll'[p].phase = "failed"
                  /\ poll'[p].upd = [status |-> "failed",
                                     hintCode |-> grandid[poll[p].g].hintCode]
            /\ (Writes(p) /\ poll[p].phase = "failed")
               => /\ store'[poll[p].sid].val.status = "failed"
                  /\ store'[poll[p].sid].val.hintCode = poll[p].upd.hintCode
                  /\ poll[p].upd.hintCode \in FailedHints
                  /\ poll'[p].resp = FailedResponse(poll[p].upd.hintCode)
            /\ (Loads(p) /\ Rec(poll'[p].sid).status = "failed"
                  /\ Rec(poll'[p].sid).hintCode \in FailedHints)
               => /\ poll'[p].pc = "done" /\ poll'[p].calls = 0
                  /\ poll'[p].resp = FailedResponse(Rec(poll'[p].sid).hintCode)
       /\ \A s \in DOMAIN store' :
            /\ (Stored(s) /\ Rec(s).status = "failed"
                  /\ Rec(s).hintCode \in FailedHints)
               => store'[s].val = Rec(s)
            /\ (last'.op = "status" /\ last'.sid = s /\ last'.resp # Uncaught
                  /\ store'[s].val.status = "failed"
                  /\ store'[s].val.hintCode \in FailedHints)
               => last'.resp = FailedResponse(store'[s].val.hintCode)]_vars

(* scenario C: the provider reported Failed/userCancel to a poll; a later  *)
(* poll and the status query both return it                                *)
C13_Witness ==
    /\ poll["p2"].pc = "idle"
    /\ poll["p1"].pc = "done" /\ poll["p1"].calls = 0
    /\ poll["p1"].resp = FailedResponse("userCancel")
    /\ last.op = "status" /\ last.sid = poll["p1"].sid
    /\ last.resp = FailedResponse("userCancel")
    /\ Stored(poll["p1"].sid)
    /\ grandid[Rec(poll["p1"].sid).grandidSessionId].phase = "failed"

(* the step in which p's provider call returned a response *)
Answered(p) ==
    /\ poll[p].pc = "grandid"
    /\ poll'[p].pc # "grandid"
    /\ poll'[p].got # Nil

(* C14: a poll of a pending session that observes Pending or NotStarted    *)
(* returns status pending with the hint code (and the QR image of that     *)
(* provider response for Pending; the hint outstandingTransaction for      *)
(* NotStarted) and writes nothing: the record and its expiry are as they   *)
(* were.                                                                   *)
C14_PendingWritesNothing ==
    [][\A p \in Pollers :
         /\ (Answered(p) /\ "grandidObject" \in DOMAIN poll'[p].got
               /\ poll'[p].got.grandidObject.message.status = "pending")
            => /\ poll'[p].pc = "done"
               /\ poll'[p].upd = Nil
               /\ poll'[p].resp =
                    Response(200,
                      [status |-> "pending",
                       hintCode |-> poll'[p].got.grandidObject.message.hintCode,
                       qrCode |-> IF "QRCode" \in DOMAIN poll'[p].got.grandidObject
                                  THEN poll'[p].got.grandidObject.QRCode
                                  ELSE "null"])
               /\ store' = store /\ issued' = issued
         /\ (Answered(p) /\ "errorObject" \in DOMAIN poll'[p].got
               /\ poll'[p].got.errorObject.code = "NOTLOGGEDIN")
            => /\ poll'[p].pc = "done"
               /\ poll'[p].upd = Nil
               /\ poll'[p].resp =
                    Response(200, [status |-> "pending",
                                   hintCode |-> "outstandingTransaction"])
               /\ store' = store /\ issued' = issued
         /\ (poll[p].pc = "done" /\ poll'[p] # poll[p])
            => poll'[p].pc = "idle" /\ store' = store]_vars

(* a poll was answered Pending with a QR code and returned it; the session *)
(* is still stored pending                                                 *)
C14_Witness ==
    \E p \in Pollers :
        /\ poll[p].pc = "done" /\ poll[p].got # Nil
        /\ "grandidObject" \in DOMAIN poll[p].got
        /\ "QRCode" \in DOMAIN poll[p].got.grandidObject
        /\ poll[p].resp.body.qrCode = "qr"
        /\ poll[p].resp.body.hintCode = "userSign"
        /\ Stored(poll[p].sid) /\ Rec(poll[p].sid).status = "pending"

(* C15: every invocation of poll calls the identity provider at most once: *)
(* exactly once when the session it loaded is pending, and not at all when *)
(* the session is absent or terminal.                                      *)
C15_OneProviderCallPerPoll ==
    [][\A p \in Pollers :
         /\ poll'[p].calls \in {0, 1}
         /\ (poll[p].pc = "idle" /\ poll'[p].pc # "idle")
            => /\ poll'[p].calls = 0
               /\ (Stored(poll'[p].sid) /\ poll'[p].resp # Uncaught)
                  => (poll'[p].pc = "grandid"
                        <=> Rec(poll'[p].sid).status = "pending")
               /\ ~Stored(poll'[p].sid) => poll'[p].pc = "done"
         /\ (poll[p].pc = "grandid" /\ poll'[p] # poll[p])
            => /\ poll[p].calls = 0 /\ poll'[p].calls = 1
               /\ poll'[p].pc \in {"update", "done"}
         /\ (poll[p].pc \in {"update", "set", "done"} /\ poll'[p].pc # "idle")
            => /\ poll'[p].calls = poll[p].calls
               /\ poll'[p].pc \in {"update", "set", "done"}]_vars

(* one poll loaded the session pending and called the provider once;       *)
(* another found the session gone and did not call it                      *)
C15_Witness ==
    /\ poll["p1"].pc = "done" /\ poll["p1"].calls = 1
    /\ poll["p2"].pc = "done" /\ poll["p2"].calls = 0
    /\ poll["p2"].resp = Response(404, [error |-> "SESSION_NOT_FOUND"])
    /\ poll["p1"].sid = poll["p2"].sid

(* the retention window the specification gives a record of this status *)
RetentionWindow(status) ==
    IF status \in Terminal THEN COMPLETE_TTL_S ELSE PENDING_TTL_S

(* C16: after every write to the Redis store (create or update) the        *)
(* record's remaining lifetime is the window of the status just written:   *)
(* the long retention window for complete and failed, the short one for    *)
(* pending.                                                                *)
C16_LifetimeFromStatus ==
    [][USE_REDIS =>
         \A s \in DOMAIN store' :
            (~Stored(s) \/ store'[s] # store[s])
            => store'[s].exp - now' = RetentionWindow(store'[s].val.status)]_vars

(* the record that p's updateSession read: the raw value of redis.get, or *)
(* the entry of the Map at the write                                       *)
ReadBy(p) ==
    IF poll[p].pc = "set" THEN poll[p].raw ELSE Rec(poll[p].sid)

(* C17: updateSession is a merge: in the record it writes, every field     *)
(* named in the update has the new value and every other field has the     *)
(* value of the record it read; the provider session id and createdAt of   *)
(* a session never change after creation.                                  *)
C17_UpdateIsMerge ==
    [][/\ \A p \in Pollers :
            Writes(p)
            => LET s == poll[p].sid
                   w == store'[s].val
               IN /\ DOMAIN w = DOMAIN ReadBy(p) \cup DOMAIN poll[p].upd
                  /\ \A f \in DOMAIN poll[p].upd : w[f] = poll[p].upd[f]
                  /\ \A f \in DOMAIN ReadBy(p) \ DOMAIN poll[p].upd :
                       w[f] = ReadBy(p)[f]
                  /\ DOMAIN poll[p].upd \cap {"grandidSessionId", "createdAt"} = {}
       /\ \A s \in DOMAIN store \cap DOMAIN store' :
            /\ store'[s].val.grandidSessionId = Rec(s).grandidSessionId
            /\ store'[s].val.createdAt = Rec(s).createdAt
       /\ \A s \in DOMAIN store' :
            /\ store'[s].val.grandidSessionId = GrandidId(s)
            /\ store'[s].val.createdAt <= now']_vars

(* a session created at time 0 was completed one tick later and still has *)
(* the provider session id and createdAt it was created with               *)
C17_Witness ==
    \E s \in DOMAIN store :
        /\ Rec(s).status = "complete" /\ Rec(s).completedAt = TickS
        /\ Rec(s).createdAt = 0 /\ Rec(s).grandidSessionId = GrandidId(s)

(* C18: updateSession on a session id that has no record is a no-op and    *)
(* never creates a record, also when the record expires between the read   *)
(* and the write of updateSession: every record that appears in the store  *)
(* is created by start.                                                    *)
C18_UpdateNeverCreates ==
    [][\A s \in DOMAIN store' \ DOMAIN store :
         /\ last'.op = "start"
         /\ \A p \in Pollers : poll'[p] = poll[p]]_vars

(* C20: for concurrent updateSession calls on one session in the Redis     *)
(* backend, no field written by one update is lost or reverted by a        *)
(* concurrent update that did not name it: a write leaves every field it   *)
(* does not name as it is in the store.                                    *)
C20_ConcurrentUpdatesKeepFields ==
    [][USE_REDIS =>
         \A p \in Pollers :
            (Writes(p) /\ Stored(poll[p].sid))
            => \A f \in DOMAIN Rec(poll[p].sid) \ DOMAIN poll[p].upd :
                 /\ f \in DOMAIN store'[poll[p].sid].val
                 /\ store'[poll[p].sid].val[f] = Rec(poll[p].sid)[f]]_vars

(* C19: for every sequence of createSession, getSession and updateSession *)
(* calls and passages of time, getSession returns the same record or       *)
(* absent in the in-memory backend and in the Redis backend.               *)
C19_BackendsAgree ==
    \A id \in BackendIds :
        getSessionIn(backends.mem, id) = getSessionIn(backends.redis, id)

(* C21: for a session id that was never created or whose record has       *)
(* expired, poll and status both respond 404 SESSION_NOT_FOUND, the same   *)
(* for both causes, and poll neither calls the provider nor writes to the  *)
(* store.                                                                  *)
C21_AbsentIsNotFound ==
    [][/\ \A p \in Pollers :
            (poll[p].pc = "idle" /\ poll'[p].pc # "idle"
               /\ ~Stored(poll'[p].sid) /\ poll'[p].resp # Uncaught)
            => /\ poll'[p].pc = "done"
               /\ poll'[p].resp = Response(404, [error |-> "SESSION_NOT_FOUND"])
               /\ poll'[p].calls = 0
               /\ store' = store /\ issued' = issued /\ released' = released
       /\ \A p \in Pollers :
            (poll[p].pc = "done" /\ poll[p].resp.code = 404)
            => /\ poll[p].calls = 0
               /\ poll'[p] # poll[p] => (poll'[p] = Idle /\ store' = store)
       /\ \A s \in SessionIds :
            (last'.op = "status" /\ last'.sid = s /\ ~Stored(s)
               /\ last'.resp # Uncaught)
            => /\ last'.resp.code = 404
               /\ last'.resp.body.error = "SESSION_NOT_FOUND"
               /\ store' = store]_vars

(* the session was created and has expired: poll and status both answer 404 *)
C21_Witness ==
    \E p \in Pollers :
        /\ poll[p].pc = "done"
        /\ poll[p].resp = Response(404, [error |-> "SESSION_NOT_FOUND"])
        /\ GrandidId(poll[p].sid) \in DOMAIN grandid
        /\ ~Stored(poll[p].sid)
        /\ last.op = "status" /\ last.sid = poll[p].sid /\ last.resp.code = 404

(* C22: a session created by start whose provider transaction never       *)
(* completes is absent from the store once the pending TTL has elapsed     *)
(* since its creation: no record is stored pending at or after             *)
(* createdAt + PENDING_TTL_S.                                              *)
C22_PendingExpires ==
    \A s \in DOMAIN store :
        Rec(s).status = "pending" => now < Rec(s).createdAt + PENDING_TTL_S

(* C23: when the provider credentials are not configured, start responds  *)
(* 503 SERVICE_MISCONFIGURED at once: it does not contact the provider     *)
(* and creates no session.                                                 *)
C23_MisconfiguredStart ==
    [][~env.GRANDID_KEYS =>
         /\ last'.op = "start"
            => /\ last'.resp.code = 503
               /\ last'.resp.body.error = "SERVICE_MISCONFIGURED"
               /\ last'.sid = 0
         /\ store' = store /\ DOMAIN store' = {}
         /\ grandid' = grandid /\ DOMAIN grandid' = {}]_vars

C23_Witness ==
    /\ ~env.GRANDID_KEYS
    /\ last.op = "start" /\ last.resp.code = 503
    /\ DOMAIN store = {} /\ DOMAIN grandid = {}

(* C24: whenever the provider's start call yields no provider session id *)
(* (an error object, no session id, or the call itself fails), start       *)
(* responds 502 and creates no session record.                             *)
C24_ProviderErrorIs502 ==
    [][(env.GRANDID_KEYS /\ last'.op = "start" /\ grandid' = grandid)
         => /\ last'.resp.code = 502
            /\ store' = store]_vars

(* C25: the response of status is a function of the stored record only:   *)
(* {status: complete, jwt} with the stored credential exactly when the     *)
(* stored status is complete, {status: failed, hintCode} exactly when it   *)
(* is failed, {status: pending} otherwise; a jwt is in the response only   *)
(* when the reported status is complete.                                   *)
C25_StatusReportsTheRecord ==
    [][\A s \in SessionIds :
         (last'.op = "status" /\ last'.sid = s /\ Stored(s)
            /\ last'.resp # Uncaught)
         => /\ last'.resp.code = 200
            /\ last'.resp.body =
                 CASE Rec(s).status = "complete" ->
                        [status |-> "complete", jwt |-> Rec(s).jwt]
                   [] Rec(s).status = "failed" ->
                        [status |-> "failed", hintCode |-> Rec(s).hintCode]
                   [] Rec(s).status = "pending" ->
                        [status |-> "pending"]
            /\ "jwt" \in DOMAIN last'.resp.body
               => last'.resp.body.status = "complete"]_vars

(* status reported a failed record that holds a credential, without the    *)
(* credential                                                              *)
C25_Witness ==
    \E s \in DOMAIN store :
        /\ Rec(s).status = "failed" /\ "jwt" \in DOMAIN Rec(s)
        /\ last.op = "status" /\ last.sid = s
        /\ last.resp = Response(200, [status |-> "failed",
                                      hintCode |-> Rec(s).hintCode])

(* C26: after its creation by start a session record is written only by  *)
(* the poll handler, and each write stores status complete together with   *)
(* a credential or status failed together with a reason; the status and    *)
(* jwks handlers never write to the store and never contact the provider.  *)
C26_OnlyPollWrites ==
    [][/\ \A s \in DOMAIN store' :
            (s \notin DOMAIN store \/ store'[s] # store[s])
            => \/ /\ s \notin DOMAIN store /\ poll' = poll
                  /\ last' = [op |-> "start", sid |-> s,
                               resp |-> StartCreated(s, GrandidId(s), now)]
                  /\ store'[s] = Entry(NewSession(GrandidId(s), now),
                                       PENDING_TTL_S, now)
               \/ \E p \in Pollers :
                 /\ Writes(p) /\ poll[p].sid = s /\ poll[p].calls = 1
                 /\ \/ /\ poll[p].upd.status = "complete"
                       /\ "jwt" \in DOMAIN poll[p].upd
                       /\ store'[s].val.status = "complete"
                       /\ "jwt" \in DOMAIN store'[s].val
                    \/ /\ poll[p].upd.status = "failed"
                       /\ "hintCode" \in DOMAIN poll[p].upd
                       /\ store'[s].val.status = "failed"
                       /\ "hintCode" \in DOMAIN store'[s].val
       /\ last'.op \in {"status", "jwks"}
          => /\ store' = store /\ grandid' = grandid /\ poll' = poll
             /\ released' = released /\ issued' = issued]_vars

(* a poll stored the provider's failure; the record outlived a tick and a   *)
(* status query                                                            *)
C26_Witness ==
    \E s \in DOMAIN store :
        /\ Rec(s).status = "failed" /\ Rec(s).hintCode \in FailedHints
        /\ "exp" \in DOMAIN store[s] /\ store[s].exp - now < PENDING_TTL_S
        /\ last.op = "status" /\ last.sid = s /\ last.resp.code = 200

(* C27: every issued credential has exp equal to iat + 3600 seconds.       *)
C27_ExpIsIatPlusHour ==
    \A s \in DOMAIN store :
        "jwt" \in DOMAIN Rec(s)
        => Rec(s).jwt.payload.exp = Rec(s).jwt.payload.iat + 3600

(* C28: the retention window of a completed session in the store equals   *)
(* the validity duration (exp - iat) of the credential stored in it.  A    *)
(* window exists where the store sets an expiry, at the write of the       *)
(* record.                                                                 *)
C28_RetentionIsValidity ==
    [][\A p \in Pollers :
         (/\ Writes(p) /\ poll[p].sid \in DOMAIN store'
          /\ "exp" \in DOMAIN store'[poll[p].sid]
          /\ store'[poll[p].sid].val.status = "complete")
         => store'[poll[p].sid].exp - now'
              = store'[poll[p].sid].val.jwt.payload.exp
                  - store'[poll[p].sid].val.jwt.payload.iat]_vars

SansVarying(jwt) ==
    [header |-> jwt.header,
     payload |-> [k \in DOMAIN jwt.payload \ {"iat", "exp", "jti"} |-> jwt.payload[k]]]

(* the released attributes with other name fields *)
Renamed(person) ==
    [person EXCEPT !.name = "Nomen Nescio", !.givenName = "Nomen",
                   !.surname = "Nescio"]

(* the credentials held by the store and by polls about to write, each     *)
(* with the personal number it was issued for                              *)
Credentials ==
    { [pn |-> Rec(s).userAttributes.personalNumber, jwt |-> Rec(s).jwt] :
        s \in {x \in DOMAIN store : {"jwt", "userAttributes"} \subseteq DOMAIN Rec(x)} }
    \cup
    { [pn |-> poll[p].upd.userAttributes.personalNumber, jwt |-> poll[p].upd.jwt] :
        p \in {q \in Pollers : {"jwt", "userAttributes"} \subseteq DOMAIN poll[q].upd} }

(* C30: two issuances for one personalNumber under the same secret and key *)
(* give credentials with the same header, issuer, subject and auth_method, *)
(* differing only in iat, exp and jti; the subject does not depend on the  *)
(* name fields, and deriving the subject again gives the same value.       *)
C30_IssuanceDeterministic ==
    /\ \A c, d \in Credentials :
         c.pn = d.pn
         => /\ SansVarying(c.jwt) = SansVarying(d.jwt)
            /\ c.jwt.payload.sub = deriveSubject(c.pn)
    /\ \A person \in Persons, t \in {now, now + TickS} :
         issueJwt(person, now, issued + 1) # <<>>
         => /\ issueJwt(Renamed(person), t, issued + 2) # <<>>
            /\ SansVarying(issueJwt(Renamed(person), t, issued + 2)[1])
                 = SansVarying(issueJwt(person, now, issued + 1)[1])
            /\ issueJwt(person, now, issued + 1)[1].payload.sub
                 = deriveSubject(person.personalNumber)

(* two concurrent polls of one session issued at different times: one      *)
(* credential is stored, the other is about to be written                  *)
C30_Witness ==
    \E c, d \in Credentials :
        /\ c.pn = d.pn
        /\ c.jwt.payload.jti # d.jwt.payload.jti
        /\ c.jwt.payload.iat # d.jwt.payload.iat
        /\ c.jwt.payload.sub = d.jwt.payload.sub

(* C31: whenever a poll responds {status: complete}, the store holds that  *)
(* session with status complete and a credential at the time of the        *)
(* response, also when the record expired or another poll wrote between    *)
(* the poll's load and its update.                                         *)
C31_CompleteResponseIsStored ==
    [][\A p \in Pollers :
         (/\ poll[p].pc # "done" /\ poll'[p].pc = "done"
          /\ poll'[p].resp = Response(200, [status |-> "complete"]))
         => /\ poll'[p].sid \in DOMAIN store'
            /\ store'[poll'[p].sid].val.status = "complete"
            /\ "jwt" \in DOMAIN store'[poll'[p].sid].val]_vars

(* C32: a session is stored as failed with the issuance-error reason only *)
(* when credential creation itself failed; a failure of the store write    *)
(* after a successful signing does not mark the session failed with that   *)
(* reason.                                                                 *)
C32_JwtErrorOnlyFromIssuance ==
    \A s \in DOMAIN store :
        (/\ Rec(s).status = "failed"
         /\ "hintCode" \in DOMAIN Rec(s)
         /\ Rec(s).hintCode = "JWT_ERROR")
        => IssuanceFails

(* C33: every failure that can occur during a poll (store read or write   *)
(* error, provider transport error, malformed provider payload, issuance   *)
(* error) is turned into a structured response; no exception escapes the   *)
(* handler.                                                                *)
C33_NoExceptionEscapesPoll ==
    \A p \in Pollers : poll[p].pc = "done" => poll[p].resp # Uncaught

(* the classification guards that accept the provider response r *)
Guards(r) ==
    {c \in {"Complete", "Pending", "Failed", "NotStarted"} :
        \/ c = "Complete" /\ isComplete(r)
        \/ c = "Pending" /\ isPending(r)
        \/ c = "Failed" /\ isFailed(r)
        \/ c = "NotStarted" /\ isNotLoggedIn(r)}

(* C34: every response the provider returns to a poll is classified as     *)
(* exactly one of Pending, Complete, Failed, NotStarted: the four guards   *)
(* are mutually exclusive and cover every response shape, provider error   *)
(* objects with a code other than NOTLOGGEDIN included.                    *)
C34_ExactlyOneGuard ==
    \A p \in Pollers :
        poll[p].got # Nil => Cardinality(Guards(poll[p].got)) = 1

(* C35: polling does not extend a pending session's lifetime: in the Redis *)
(* backend a record that is still pending expires exactly the pending TTL  *)
(* after its creation, whatever polls answered pending or a provider       *)
(* transport error in between, and is absent from then on.                 *)
C35_PollingKeepsPendingDeadline ==
    USE_REDIS
    => \A s \in DOMAIN store :
         Rec(s).status = "pending"
         => /\ store[s].exp = Rec(s).createdAt + PENDING_TTL_S
            /\ now < Rec(s).createdAt + PENDING_TTL_S

(* a pending Redis session, one tick old, was polled twice: one poll was   *)
(* answered pending with the provider's hint, the other 502                *)
C35_Witness ==
    /\ USE_REDIS
    /\ \E s \in DOMAIN store :
         /\ Rec(s).status = "pending" /\ Rec(s).createdAt < now
         /\ \E p, q \in Pollers :
              /\ poll[p].pc = "done" /\ poll[p].sid = s /\ poll[p].calls = 1
              /\ poll[p].resp.code = 200 /\ poll[p].resp.body.status = "pending"
              /\ "qrCode" \in DOMAIN poll[p].resp.body
              /\ poll[q].pc = "done" /\ poll[q].sid = s /\ poll[q].threw
              /\ poll[q].resp = Response(502, [error |-> "GRANDID_UNREACHABLE"])

(* C36: the expiresAt returned by start is the time at which the unused   *)
(* pending session expires in the store: expiresAt = creation time + the   *)
(* store's pending TTL.  Stated where the store sets an expiry.            *)
C36_ExpiresAtIsStoreExpiry ==
    (/\ last.op = "start" /\ last.resp.code = 200
     /\ Stored(last.sid) /\ "exp" \in DOMAIN store[last.sid])
    => /\ last.resp.body.expiresAt = store[last.sid].exp
       /\ last.resp.body.expiresAt = Rec(last.sid).createdAt + PENDING_TTL_S

(* C37: for each provider session, any two calls the service makes to the *)
(* provider's poll operation are at least 2 seconds apart, for every       *)
(* combination of clients polling that session.                            *)
C37_ProviderCallsTwoSecondsApart ==
    [][\A p \in Pollers :
         (/\ poll[p].pc = "grandid" /\ poll'[p].calls = 1
          /\ poll[p].g \in DOMAIN calledAt)
         => now - calledAt[poll[p].g] >= 2]_vars

(* C38: on the auth page, once the screen has become complete, failed or  *)
(* not_found it never goes back to pending or loading, whatever order the  *)
(* responses to its poll requests arrive in.                               *)
C38_TerminalScreenStays ==
    [][page.screen \in {"complete", "failed", "not_found"}
       => page'.screen \notin {"pending", "loading"}]_vars

=============================================================================
